---- MODULE Spec2Model ----
(***************************************************************************)
(* Model of src/utils.py (hanyang-hu/soft-and-dense): reference-path       *)
(* construction, inverse projection on a quadratic path, quadratic-path    *)
(* anchor selection, square-square energy loss and multi-modal goal        *)
(* selection.                                                              *)
(*                                                                         *)
(* Numbers.  The code works on floating-point coordinates.  The model      *)
(* works on an integer lattice and compares SQUARED distances wherever the *)
(* code compares distances (sqrt is monotone, and exact on the small       *)
(* integers used here).  Reference-path inputs are multiples of 8 so that  *)
(* the up-to-three midpoint rounds of the densify loop stay on the         *)
(* lattice.  On the lattice a distance is <= 1e-7 exactly when it is 0.    *)
(*                                                                         *)
(* Indices are 0-based as in the code; At(s, i) reads s[i].                *)
(***************************************************************************)
EXTENDS Integers, Sequences, FiniteSets, TLC

VARIABLES
    pc,                  \* position of the running function
    \* construct_reference_path / construct_quadratic_path
    reference_path,      \* the reference path being built, or the fitter's input
    point_label,         \* target point
    labels,              \* ground-truth trajectory
    future_frame_num,    \* horizon
    ref_in,              \* the reference path as passed by the caller
    rounds,              \* completed iterations of the densify loop
    closest_point_idx,   \* index of the closest path point (0-based), -1 = unset
    R2,                  \* square of the filter radius R, -1 = unset
    R2_raw,              \* square of the value max(..., 3) clamps, -1 = unset
    filtered,            \* the path after the radius filter (before the splice)
    \* inv_proj
    point,               \* query point
    coeff,               \* the six coefficients of the quadratic path
    np_roots,            \* the array np.roots returned for the cubic
    t_hat,               \* returned parameter, in units of 1/TDen
    point_hat,           \* returned curve point, in units of 1/TDen^2
    \* construct_quadratic_path
    p2,                  \* the middle anchor
    transform_t,         \* the t transform was called with, in units of 1/TDen
    fit_num,             \* numerators of the six coefficients returned
    fit_den,             \* their common denominator (t^2 - t) * TDen^2
    \* get_sse_prep / square_square_energy_loss_from_prep
    dense_goals,         \* the goal lattice
    dense_goal_scores,   \* one score per goal
    ground_truth_goal,   \* mapping['labels'][-1]
    quadratic_path,      \* mapping['quadratic_path']: [none, c]
    target_energy_idx,   \* index of the goal nearest to the ground truth
    mo_idx,              \* index of the most offensive goal, NoneIdx = None
    loss,                \* the loss returned
    one_call_loss,       \* the value square_square_energy_loss returns
    \* get_optimal_targets_home_MR
    mr_scores,           \* scores: the mass of each goal, zeroed round by round
    mr_goals,            \* goals: the goals of one example
    ans_points,          \* the six mode centres
    mr_i,                \* the round counter i
    \* select_goals_by_optimization, one example
    sel_scores,          \* scores[i], in units of T * ln 2
    sel_goals,           \* goals[i]
    sel_label,           \* mapping[i]['labels'][-1]
    probs,               \* numerators of the softmax probabilities
    probs_den,           \* their common denominator
    centroids,           \* the six points returned: [nan, p]
    min_FDE              \* [nan, sq]: the square of min_FDE[i]

pathVars == <<reference_path, point_label>>
crpVars == <<labels, future_frame_num, ref_in, rounds, closest_point_idx,
             R2, R2_raw, filtered>>
projVars == <<point, coeff, np_roots, t_hat, point_hat>>
cqpVars == <<p2, transform_t, fit_num, fit_den>>
sseVars == <<dense_goals, dense_goal_scores, ground_truth_goal, quadratic_path,
             target_energy_idx, mo_idx, loss, one_call_loss>>

mrVars == <<mr_scores, mr_goals, ans_points, mr_i>>
selVars == <<sel_scores, sel_goals, sel_label, probs, probs_den, centroids, min_FDE>>

vars == <<pc, pathVars, crpVars, projVars, cqpVars, sseVars, mrVars, selVars>>

\* the variables each specification leaves alone
restRef == <<projVars, cqpVars, sseVars, mrVars, selVars>>
restProj == <<pathVars, crpVars, cqpVars, sseVars, mrVars, selVars>>
restQuad == <<crpVars, projVars, sseVars, mrVars, selVars>>
restSse == <<pathVars, crpVars, projVars, cqpVars, mrVars, selVars>>
restMR == <<pathVars, crpVars, projVars, cqpVars, sseVars, selVars>>
restSel == <<pathVars, crpVars, projVars, cqpVars, sseVars, mrVars>>

----------------------------------------------------------------------------
(* Bounds of the model *)

MaxRefLen == 3       \* longest reference path passed in
MaxLabels == 3       \* longest trajectory passed in
MaxHorizon == 4      \* largest future_frame_num
MaxRounds == 4       \* cap on counted densify iterations (loop of a 1-point path)
MaxQuadLen == 4      \* longest path passed to construct_quadratic_path
MaxGoals == 3        \* most goals passed to get_sse_prep
MaxTargetScore == 3  \* target scores compared range over -3 .. m + 3
TDen == 4            \* curve parameters t are multiples of 1/TDen
MaxMRGoals == 3      \* most goals passed to get_optimal_targets_home_MR
MaxMass == 2         \* masses range over 0 .. MaxMass
MaxSelGoals == 3     \* most goals of the example passed to select_goals_by_optimization
MaxK == 2            \* scores range over 0 .. MaxK times T * ln 2
MaxLongLen == 9      \* longest reference path of the densify specification
MaxRoot == 2         \* roots of the cubic are looked for in [-MaxRoot, MaxRoot]

(* Input lattices *)
RefPts == {<<0, 0>>, <<16, 0>>, <<0, 16>>}
LabelPts == {<<0, 0>>, <<2, 0>>, <<20, 0>>}

----------------------------------------------------------------------------
(* Python / numpy helpers *)

Max2(a, b) == IF a >= b THEN a ELSE b
Min2(a, b) == IF a <= b THEN a ELSE b

\* s[i], 0-based
At(s, i) == s[i + 1]

\* s[-k], k >= 1
PyNeg(s, k) == s[Len(s) - k + 1]

\* s[i:], 0-based start
SliceFrom(s, i) == SubSeq(s, i + 1, Len(s))

\* s[:i]
SliceTo(s, i) == SubSeq(s, 1, i)

\* mutant of Reversed: the slice is taken without the step -1
not_reversed(s) == s

\* s[::-1]
Reversed(s) == [j \in 1..Len(s) |-> s[Len(s) - j + 1]]

\* All sequences over S of length lo..hi
SeqsOf(S, lo, hi) == UNION {[1..n -> S] : n \in lo..hi}

\* square of get_dis_p2p(p, q)
get_dis_p2p_sq(p, q) ==
    (p[1] - q[1]) * (p[1] - q[1]) + (p[2] - q[2]) * (p[2] - q[2])

\* np.argmin(get_dis_batch(points, point_label)): first index of the minimum
argmin_dis(points, p) ==
    CHOOSE i \in 0..(Len(points) - 1) :
        /\ \A j \in 0..(Len(points) - 1) :
              get_dis_p2p_sq(At(points, i), p) <= get_dis_p2p_sq(At(points, j), p)
        /\ \A j \in 0..(i - 1) :
              get_dis_p2p_sq(At(points, j), p) > get_dis_p2p_sq(At(points, i), p)

\* np.dot of two 2-vectors
dot(u, v) == u[1] * v[1] + u[2] * v[2]

\* b - a: the (unnormalised) direction of get_unit_vector(point_a, point_b)
direction(point_a, point_b) == <<point_b[1] - point_a[1], point_b[2] - point_a[2]>>

\* get_unit_vector(point_a, point_b) raises ZeroDivisionError
unit_vector_raises(point_a, point_b) == get_dis_p2p_sq(point_a, point_b) = 0

Min3(a, b, c) == Min2(a, Min2(b, c))

----------------------------------------------------------------------------
(* construct_reference_path *)

R_MAX == 15
R_MIN == 3
DENSE_LEN == 9

\* (a + b) / 2 of two path points
midpoint(a, b) == <<(a[1] + b[1]) \div 2, (a[2] + b[2]) \div 2>>

\* mutant of densified_reference_path: line 205 is missing, the last point
\* is not appended
densified_without_last(path) ==
    [j \in 1..(2 * Len(path) - 2) |->
        IF j % 2 = 1 THEN path[(j + 1) \div 2]
        ELSE midpoint(path[j \div 2], path[j \div 2 + 1])]

\* One iteration of the densify loop on a path of at least one point:
\* every point but the last is followed by the midpoint to its successor.
densified_reference_path(path) ==
    [j \in 1..(2 * Len(path) - 1) |->
        IF j % 2 = 1 THEN path[(j + 1) \div 2]
        ELSE midpoint(path[j \div 2], path[j \div 2 + 1])]

\* reference_path - (closest_point - point_label)
shifted_reference_path(path, idx, target) ==
    [j \in 1..Len(path) |->
        <<path[j][1] - (At(path, idx)[1] - target[1]),
          path[j][2] - (At(path, idx)[2] - target[2])>>]

\* -future_frame_num // 2 and -future_frame_num // 3 are the negative indices
\* -ceil(f / 2) and -ceil(f / 3)
half_back(f) == (f + 1) \div 2
third_back(f) == (f + 2) \div 3

\* the value clamped from below by 3 in the computation of R, squared
unclamped_R_sq(lbls, f, path, idx) ==
    Min3(Max2(R_MAX * R_MAX, get_dis_p2p_sq(PyNeg(lbls, 1), PyNeg(lbls, half_back(f)))),
         get_dis_p2p_sq(PyNeg(lbls, 1), At(lbls, 0)),
         Max2(get_dis_p2p_sq(PyNeg(path, 1), At(path, idx)),
              get_dis_p2p_sq(At(path, 0), At(path, idx))))

\* R squared
radius_sq(lbls, f, path, idx) ==
    Max2(unclamped_R_sq(lbls, f, path, idx), R_MIN * R_MIN)

\* the points of the path within R of the target, in path order
filtered_reference_path(path, target, r2) ==
    SelectSeq(path, LAMBDA pt : get_dis_p2p_sq(pt, target) <= r2)

\* the value of i after the while loop of lines 244-246
trailing_within(lbls, c, r2) ==
    CHOOSE i \in 0..Len(lbls) :
        /\ \A j \in 0..(i - 1) : get_dis_p2p_sq(PyNeg(lbls, 1 + j), c) <= r2
        /\ i < Len(lbls) => get_dis_p2p_sq(PyNeg(lbls, 1 + i), c) > r2

\* mutant of traj_segment: the slice starts one label too late
traj_segment_late(lbls, c, r2) ==
    SubSeq(lbls, Len(lbls) - Max2(0, trailing_within(lbls, c, r2) - 1) + 1, Len(lbls))

\* traj_segment = labels[-1-i:] with i = max(0, i - 1)
traj_segment(lbls, c, r2) ==
    SubSeq(lbls, Len(lbls) - Max2(0, trailing_within(lbls, c, r2) - 1), Len(lbls))

\* has_traj: get_unit_vector(labels[-1], labels[-future_frame_num//3]) succeeds
has_traj(lbls, f) ==
    /\ third_back(f) <= Len(lbls)
    /\ ~unit_vector_raises(PyNeg(lbls, 1), PyNeg(lbls, third_back(f)))

traj_direction(lbls, f) == direction(PyNeg(lbls, 1), PyNeg(lbls, third_back(f)))

start_dist_sq(path, idx) == get_dis_p2p_sq(At(path, idx), At(path, 0))
end_dist_sq(path, idx) == get_dis_p2p_sq(At(path, idx), PyNeg(path, 1))

\* np.dot(traj_direction, start_direction) and np.dot(traj_direction,
\* end_direction) up to the positive factors 1/|traj| 1/|start|, 1/|end|
start_hypo(lbls, f, path, idx) ==
    dot(traj_direction(lbls, f), direction(At(path, idx), At(path, 0)))
end_hypo(lbls, f, path, idx) ==
    dot(traj_direction(lbls, f), direction(At(path, idx), PyNeg(path, 1)))

\* abs(hypo) <= 1e-7 for the normalised dot product: on the lattice the
\* integer dot product is 0 or at least 1 in size, and the norms are below
\* 10^3, so the normalised value is 0 or above 1e-6.
negligible(hypo) == hypo = 0

\* a / sqrt(a2) < b / sqrt(b2) for a2, b2 > 0: the comparison of the
\* normalised dot products start_hypo < end_hypo
normalised_less(a, a2, b, b2) ==
    IF a < 0 /\ b >= 0 THEN TRUE
    ELSE IF a >= 0 /\ b < 0 THEN FALSE
    ELSE IF a >= 0 THEN a * a * b2 < b * b * a2
    ELSE a * a * b2 > b * b * a2

\* mutant of splice_condition: strictly opposite signs, neither negligible
splice_condition_strict(sh, eh) ==
    sh * eh < 0 /\ ~negligible(sh) /\ ~negligible(eh)

\* the condition of line 285
splice_condition(sh, eh) ==
    sh * eh <= 0 /\ ~(negligible(sh) /\ negligible(eh))

\* lines 259-291: the path returned, given the filtered path and its closest index
spliced_reference_path(lbls, f, path, idx, r2) ==
    LET seg == traj_segment(lbls, At(path, idx), r2)
        sd == start_dist_sq(path, idx)
        ed == end_dist_sq(path, idx)
        sh == start_hypo(lbls, f, path, idx)
        eh == end_hypo(lbls, f, path, idx)
    IN  IF has_traj(lbls, f) /\ ~(sd = 0 /\ ed = 0)
        THEN IF sd = 0
             THEN IF eh > 0 THEN seg ELSE seg \o SliceFrom(path, idx)
             ELSE IF ed = 0
             THEN IF sh > 0 THEN seg ELSE SliceTo(path, idx) \o Reversed(seg)
             ELSE IF splice_condition(sh, eh)
                  THEN IF normalised_less(sh, sd, eh, ed)
                       THEN SliceTo(path, idx) \o Reversed(seg)
                       ELSE seg \o SliceFrom(path, idx)
                  ELSE path
        ELSE path

\* mutant of unit_vector_requests: line 259 lacks
\* "not (start_dist <= 1e-7 and end_dist <= 1e-7)"
unit_vector_requests_unguarded(lbls, f, path, idx) ==
    LET sd == start_dist_sq(path, idx)
        ed == end_dist_sq(path, idx)
        to_start == <<At(path, idx), At(path, 0)>>
        to_end == <<At(path, idx), PyNeg(path, 1)>>
    IN  IF has_traj(lbls, f)
        THEN IF sd = 0 THEN {to_end}
             ELSE IF ed = 0 THEN {to_start}
             ELSE {to_start, to_end}
        ELSE {}

\* the pairs of points get_unit_vector is called on outside the try block,
\* lines 262, 271, 280 and 281
unit_vector_requests(lbls, f, path, idx) ==
    LET sd == start_dist_sq(path, idx)
        ed == end_dist_sq(path, idx)
        to_start == <<At(path, idx), At(path, 0)>>
        to_end == <<At(path, idx), PyNeg(path, 1)>>
    IN  IF has_traj(lbls, f) /\ ~(sd = 0 /\ ed = 0)
        THEN IF sd = 0 THEN {to_end}
             ELSE IF ed = 0 THEN {to_start}
             ELSE {to_start, to_end}
        ELSE {}

\* one of these calls divides by zero (line 116); nothing catches it
splice_raises(lbls, f, path, idx) ==
    \E r \in unit_vector_requests(lbls, f, path, idx) :
        unit_vector_raises(r[1], r[2])

----------------------------------------------------------------------------
(* solve_cubic and inv_proj.                                               *)
(* A parameter value t is an integer k standing for k / TDen; a curve      *)
(* point is kept in units of 1 / TDen^2 and a squared distance to the      *)
(* curve in units of 1 / TDen^4.  A complex number is [re, im], both in    *)
(* units of 1 / TDen.                                                      *)

\* TDen^2 * (a_2 t^2 + a_1 t + a_0, b_2 t^2 + b_1 t + b_0) at t = k / TDen
curve_at(c, k) ==
    <<c.a_2 * k * k + c.a_1 * k * TDen + c.a_0 * TDen * TDen,
      c.b_2 * k * k + c.b_1 * k * TDen + c.b_0 * TDen * TDen>>

\* TDen^4 * dist of lines 327-328
proj_dist(p, c, k) ==
    get_dis_p2p_sq(<<p[1] * TDen * TDen, p[2] * TDen * TDen>>, curve_at(c, k))

\* the coefficients of the cubic, lines 314-317
c_3(p, c) == 4 * c.a_2 * c.a_2 + 4 * c.b_2 * c.b_2
c_2(p, c) == 6 * c.a_1 * c.a_2 + 6 * c.b_1 * c.b_2
c_1(p, c) == -4 * c.a_2 * p[1] + 2 * c.a_1 * c.a_1 + 4 * c.a_0 * c.a_2
             - 4 * c.b_2 * p[2] + 2 * c.b_1 * c.b_1 + 4 * c.b_0 * c.b_2
c_0(p, c) == -2 * c.a_1 * p[1] + 2 * c.a_0 * c.a_1
             - 2 * c.b_1 * p[2] + 2 * c.b_0 * c.b_1

\* np.roots([0, 0, c1, c0]): leading zeros are stripped; the one root of a
\* linear polynomial is -c0 / c1, and a constant polynomial has none.
np_roots_linear(c1, c0) ==
    IF c1 = 0 THEN <<>> ELSE <<[re |-> (-c0 * TDen) \div c1, im |-> 0]>>

\* -c0 / c1 is a multiple of 1 / TDen
linear_root_on_grid(c1, c0) == c1 = 0 \/ (c0 * TDen) % c1 = 0

\* TDen^3 * (c3 t^3 + c2 t^2 + c1 t + c0) at t = k / TDen
cubic_at(c3, c2, c1, c0, k) ==
    c3 * k * k * k + c2 * k * k * TDen + c1 * k * TDen * TDen + c0 * TDen * TDen * TDen

\* the real roots of the cubic that are multiples of 1 / TDen in
\* [-MaxRoot, MaxRoot]
real_grid_roots(c3, c2, c1, c0) ==
    {k \in (-MaxRoot * TDen)..(MaxRoot * TDen) : cubic_at(c3, c2, c1, c0, k) = 0}

\* the conjugate pairs re +- i im (im > 0) that, with the real root k, are
\* the three roots of the cubic (by the relations between roots and
\* coefficients)
conjugate_pairs(c3, c2, c1, c0, k) ==
    {z \in [re : (-MaxRoot * TDen)..(MaxRoot * TDen), im : 1..(MaxRoot * TDen)] :
        /\ c3 * (k + 2 * z.re) = -c2 * TDen
        /\ c3 * (2 * k * z.re + z.re * z.re + z.im * z.im) = c1 * TDen * TDen
        /\ c3 * k * (z.re * z.re + z.im * z.im) = -c0 * TDen * TDen * TDen}

\* the three roots of a cubic (c3 # 0) with simple roots that are all
\* multiples of 1 / TDen: three real ones, or a real one and a conjugate
\* pair; {} for any other cubic
cubic_roots(c3, c2, c1, c0) ==
    LET reals == real_grid_roots(c3, c2, c1, c0)
    IN  IF Cardinality(reals) = 3
        THEN {[re |-> k, im |-> 0] : k \in reals}
        ELSE IF Cardinality(reals) = 1
        THEN LET k == CHOOSE r \in reals : TRUE
                 pairs == conjugate_pairs(c3, c2, c1, c0, k)
             IN  IF pairs = {} THEN {}
                 ELSE LET z == CHOOSE w \in pairs : TRUE
                      IN  {[re |-> k, im |-> 0], z, [re |-> z.re, im |-> -z.im]}
        ELSE {}

\* the arrays np.roots([c3, c2, c1, c0]) may return: for a cubic its three
\* roots, in an order numpy leaves to the eigenvalue solver
np_roots_of(c3, c2, c1, c0) ==
    IF c3 = 0 THEN {np_roots_linear(c1, c0)}
    ELSE {r \in [1..3 -> cubic_roots(c3, c2, c1, c0)] :
             \A i, j \in 1..3 : r[i] = r[j] => i = j}

\* the roots of the cubic are values the model holds exactly
roots_on_grid(c3, c2, c1, c0) ==
    IF c3 = 0 THEN linear_root_on_grid(c1, c0)
    ELSE cubic_roots(c3, c2, c1, c0) # {}

\* mutant of solve_cubic: the range test is dropped
solve_cubic_any_real(roots) ==
    LET real == SelectSeq(roots, LAMBDA root : root.im = 0)
    IN  [j \in 1..Len(real) |-> real[j].re]

\* solve_cubic: the real roots within [0, 1], in the order np.roots gave them
solve_cubic(roots) ==
    LET real == SelectSeq(roots, LAMBDA root : root.im = 0 /\ 0 <= root.re /\ root.re <= TDen)
    IN  [j \in 1..Len(real) |-> real[j].re]

\* the loop of lines 326-331 from candidate i on; min_dist < 0 stands for inf
RECURSIVE inv_proj_scan(_, _, _, _, _, _)
inv_proj_scan(p, c, cands, i, t, min_dist) ==
    IF i > Len(cands) THEN t
    ELSE LET dist == proj_dist(p, c, cands[i])
         IN  IF min_dist < 0 \/ dist < min_dist
             THEN inv_proj_scan(p, c, cands, i + 1, cands[i], dist)
             ELSE inv_proj_scan(p, c, cands, i + 1, t, min_dist)

\* roots.extend([0.0, 1.0]) and the scan: the returned t_hat
inv_proj_t(p, c, roots) ==
    inv_proj_scan(p, c, solve_cubic(roots) \o <<0, TDen>>, 1, -1, -1)

\* the pair returned by inv_proj
inv_proj(p, c, roots) ==
    <<inv_proj_t(p, c, roots), curve_at(c, inv_proj_t(p, c, roots))>>

----------------------------------------------------------------------------
(* construct_quadratic_path *)

\* get_dis_p2p(p1, cand) < 1e-7 or get_dis_p2p(cand, p3) < 1e-7
is_not_valid(p1, cand, p3) ==
    get_dis_p2p_sq(p1, cand) = 0 \/ get_dis_p2p_sq(cand, p3) = 0

\* mutant of anchor_scan: the loop condition lacks "and is_not_valid", so
\* the scan runs to the end of the path
anchor_scan_to_end(path, idx, cand, invalid) == PyNeg(path, 1)

\* the while loop of lines 359-362: the candidate it ends with
RECURSIVE anchor_scan(_, _, _, _)
anchor_scan(path, idx, cand, invalid) ==
    IF idx < Len(path) /\ invalid
    THEN LET c == At(path, idx)
         IN  anchor_scan(path, idx + 1, c, is_not_valid(At(path, 0), c, PyNeg(path, 1)))
    ELSE cand

\* lines 349-363: p2
middle_anchor(path, target) ==
    LET p1 == At(path, 0)
        closest == At(path, argmin_dis(path, target))
        p3 == PyNeg(path, 1)
    IN  IF is_not_valid(p1, closest, p3)
        THEN anchor_scan(path, 0, At(path, 0), is_not_valid(p1, At(path, 0), p3))
        ELSE closest

\* transform(t) at t = k / TDen: each coefficient is num / den with
\* den = (t^2 - t) * TDen^2
transform_den(k) == k * k - k * TDen

\* mutant of transform_num: p3 * t enters a_2 and b_2 with the wrong sign
transform_num_sign(p1, pm, p3, k) ==
    [a_2 |-> (p1[1] * k - p1[1] * TDen + pm[1] * TDen + p3[1] * k) * TDen,
     a_1 |-> -p1[1] * k * k + p1[1] * TDen * TDen - pm[1] * TDen * TDen + p3[1] * k * k,
     a_0 |-> p1[1] * k * k - p1[1] * k * TDen,
     b_2 |-> (p1[2] * k - p1[2] * TDen + pm[2] * TDen + p3[2] * k) * TDen,
     b_1 |-> -p1[2] * k * k + p1[2] * TDen * TDen - pm[2] * TDen * TDen + p3[2] * k * k,
     b_0 |-> p1[2] * k * k - p1[2] * k * TDen]

transform_num(p1, pm, p3, k) ==
    [a_2 |-> (p1[1] * k - p1[1] * TDen + pm[1] * TDen - p3[1] * k) * TDen,
     a_1 |-> -p1[1] * k * k + p1[1] * TDen * TDen - pm[1] * TDen * TDen + p3[1] * k * k,
     a_0 |-> p1[1] * k * k - p1[1] * k * TDen,
     b_2 |-> (p1[2] * k - p1[2] * TDen + pm[2] * TDen - p3[2] * k) * TDen,
     b_1 |-> -p1[2] * k * k + p1[2] * TDen * TDen - pm[2] * TDen * TDen + p3[2] * k * k,
     b_0 |-> p1[2] * k * k - p1[2] * k * TDen]

----------------------------------------------------------------------------
(* get_sse_prep and square_square_energy_loss_from_prep.                   *)
(* Scores are integers.  mapping['quadratic_path'] is [none, c]: none for  *)
(* None, c the coefficients otherwise; the paths used are straight         *)
(* (a_2 = b_2 = 0), so that np.roots is exact (np_roots_linear).           *)

NoneIdx == -1
M_DEFAULT == 10
EPS_DEFAULT == 10
\* eps=1-.0, the default of square_square_energy_loss
EPS_ONE_CALL == 1

RECURSIVE Gcd(_, _)
Gcd(a, b) == IF b = 0 THEN a ELSE Gcd(b, a % b)

\* sqrt(g) + sqrt(n / d) >= e for integers g, n >= 0 and d, e > 0, decided
\* by squaring twice
sum_sqrt_ge(g, n, d, e) ==
    LET k == Gcd(n, d)
        nn == n \div k
        dd == d \div k
        rhs == (e * e + g) * dd - nn
    IN  \/ g >= e * e
        \/ rhs <= 0
        \/ 4 * e * e * g * dd * dd >= rhs * rhs

\* TDen^4 * traj_dist^2 of lines 486-490 (0 when no curve was fit)
traj_dist_sq(goal, qp) ==
    IF qp.none THEN 0
    ELSE proj_dist(goal, qp.c,
                   inv_proj_t(goal, qp.c,
                              np_roots_linear(c_1(goal, qp.c), c_0(goal, qp.c))))

\* dist >= eps with dist = goal_dist + traj_dist, lines 491-492
combined_far(goal, gt, qp, eps) ==
    sum_sqrt_ge(get_dis_p2p_sq(goal, gt), traj_dist_sq(goal, qp),
                TDen * TDen * TDen * TDen, eps)

\* mutant of sse_scan: "<=" in place of "<" against the running minimum
RECURSIVE sse_scan_le(_, _, _, _, _, _, _)
sse_scan_le(goals, scores, gt, qp, m, eps, st) ==
    IF st.i >= Len(goals) THEN st.mo_idx
    ELSE LET score == At(scores, st.i)
             below == IF st.mo_idx = NoneIdx THEN score < m
                      ELSE score <= Min2(st.mo_score, m) /\ score < m
         IN  IF below /\ combined_far(At(goals, st.i), gt, qp, eps)
             THEN sse_scan_le(goals, scores, gt, qp, m, eps,
                              [i |-> st.i + 1, mo_idx |-> st.i, mo_score |-> score])
             ELSE sse_scan_le(goals, scores, gt, qp, m, eps,
                              [st EXCEPT !.i = st.i + 1])

\* the loop of lines 481-494 from goal st.i on; st.mo_idx = NoneIdx stands
\* for mo_idx = None with mo_score = inf
RECURSIVE sse_scan(_, _, _, _, _, _, _)
sse_scan(goals, scores, gt, qp, m, eps, st) ==
    IF st.i >= Len(goals) THEN st.mo_idx
    ELSE LET score == At(scores, st.i)
             below == IF st.mo_idx = NoneIdx THEN score < m
                      ELSE score < Min2(st.mo_score, m)
         IN  IF below /\ combined_far(At(goals, st.i), gt, qp, eps)
             THEN sse_scan(goals, scores, gt, qp, m, eps,
                           [i |-> st.i + 1, mo_idx |-> st.i, mo_score |-> score])
             ELSE sse_scan(goals, scores, gt, qp, m, eps,
                           [st EXCEPT !.i = st.i + 1])

\* get_sse_prep: <<target_energy_idx, mo_idx>>
get_sse_prep(goals, scores, gt, qp, m, eps) ==
    <<argmin_dis(goals, gt),
      sse_scan(goals, scores, gt, qp, m, eps,
               [i |-> 0, mo_idx |-> NoneIdx, mo_score |-> 0])>>

\* mutant of square_square_energy_loss_from_prep: the first term squares the
\* most offensive score when there is one
loss_from_prep_wrong_index(scores, t_idx, m_idx, m) ==
    (IF m_idx # NoneIdx THEN At(scores, m_idx) * At(scores, m_idx)
     ELSE At(scores, t_idx) * At(scores, t_idx))
    + (IF m_idx # NoneIdx /\ At(scores, m_idx) < m
       THEN (m - At(scores, m_idx)) * (m - At(scores, m_idx)) ELSE 0)

\* square_square_energy_loss_from_prep, lines 499-512
square_square_energy_loss_from_prep(scores, t_idx, m_idx, m) ==
    At(scores, t_idx) * At(scores, t_idx)
    + (IF m_idx # NoneIdx /\ At(scores, m_idx) < m
       THEN (m - At(scores, m_idx)) * (m - At(scores, m_idx)) ELSE 0)

\* square_square_energy_loss with its default m and eps, lines 515-517
square_square_energy_loss(goals, scores, gt, qp) ==
    LET prep == get_sse_prep(goals, scores, gt, qp, M_DEFAULT, EPS_ONE_CALL)
    IN  square_square_energy_loss_from_prep(scores, prep[1], prep[2], M_DEFAULT)

----------------------------------------------------------------------------
(* get_optimal_targets_home_MR, get_optimal_targets_home_FDE,              *)
(* get_optimal_targets_home and select_goals_by_optimization.              *)
(* Goals lie on an integer lattice.  Masses are integers: probabilities    *)
(* are kept as numerators over one common denominator, which cancels in    *)
(* every comparison of sums and in every weighted mean below.              *)

NUM_MODES == 6
R_MR_SQ == 4
L_FDE == 4
R_FDE_SQ == 9

RECURSIVE SumOver(_, _)
SumOver(f, S) ==
    IF S = {} THEN 0
    ELSE LET j == CHOOSE j \in S : TRUE IN f[j] + SumOver(f, S \ {j})

\* mutant of neighbourhood: dist <= R
neighbourhood_closed(goals, goal) ==
    {j \in 1..Len(goals) : get_dis_p2p_sq(goals[j], goal) <= R_MR_SQ}

\* dist < R, line 586: the (1-based) positions of the goals within R of goal
neighbourhood(goals, goal) ==
    {j \in 1..Len(goals) : get_dis_p2p_sq(goals[j], goal) < R_MR_SQ}

\* integral, line 586
integral(scores, goals, goal) == SumOver(scores, neighbourhood(goals, goal))

\* the loop of lines 584-590 from goal j on: best is the position of
\* best_center, 0 standing for None with best_score = -inf
RECURSIVE best_center_scan(_, _, _, _)
best_center_scan(scores, goals, j, best) ==
    IF j > Len(goals) THEN best
    ELSE IF best = 0
            \/ integral(scores, goals, goals[j]) > integral(scores, goals, goals[best])
         THEN best_center_scan(scores, goals, j + 1, j)
         ELSE best_center_scan(scores, goals, j + 1, best)

\* one round of lines 583-592 on a non-empty goals: the centre recorded and
\* the scores after scores[filter_idx] = 0.0
mr_round(scores, goals) ==
    LET best == best_center_scan(scores, goals, 1, 0)
        filter_idx == neighbourhood(goals, goals[best])
    IN  [center |-> goals[best],
         scores |-> [j \in 1..Len(scores) |->
                        IF j \in filter_idx THEN 0 ELSE scores[j]]]

\* get_optimal_targets_home_MR from round i on: the array returned and the
\* scores array as the call leaves it
RECURSIVE get_optimal_targets_home_MR(_, _, _, _)
get_optimal_targets_home_MR(scores, goals, pts, i) ==
    IF i >= NUM_MODES THEN [ans_points |-> pts, scores |-> scores]
    ELSE LET r == mr_round(scores, goals)
         IN  get_optimal_targets_home_MR(r.scores, goals,
                                         [pts EXCEPT ![i + 1] = r.center], i + 1)

\* np.zeros((6, 2)), line 581
zeros_6_2 == [k \in 1..NUM_MODES |-> <<0, 0>>]

NaN == [nan |-> TRUE, p |-> <<0, 0>>]
Num(q) == [nan |-> FALSE, p |-> q]

\* weights of line 611 for a goal at distance 0 from centroid k (then m = 0
\* too): score * (0 + 1e-7) / (0 + 1e-7) = score.  The goals of this model
\* are either at a centroid or farther than R from it.
fde_weight(score, d_sq) == CASE d_sq = 0 -> score

\* line 612 for centroid c: the weighted mean of the goals within R, 0 / 0
\* being nan
new_centroid(scores, goals, c) ==
    LET idx == {j \in 1..Len(goals) : get_dis_p2p_sq(goals[j], c.p) <= R_FDE_SQ}
        w == [j \in idx |-> fde_weight(scores[j], get_dis_p2p_sq(goals[j], c.p))]
        sw == SumOver(w, idx)
        sx == SumOver([j \in idx |-> goals[j][1] * w[j]], idx)
        sy == SumOver([j \in idx |-> goals[j][2] * w[j]], idx)
    IN  IF sw = 0 THEN NaN ELSE Num(<<sx \div sw, sy \div sw>>)

\* one round of lines 599-612.  dist and m are computed before any centroid
\* is assigned; a nan centroid makes m nan (np.min), hence every weight and
\* every centroid
fde_round(scores, goals, cents) ==
    IF \E k \in 1..NUM_MODES : cents[k].nan
    THEN [k \in 1..NUM_MODES |-> NaN]
    ELSE [k \in 1..NUM_MODES |-> new_centroid(scores, goals, cents[k])]

RECURSIVE get_optimal_targets_home_FDE(_, _, _, _)
get_optimal_targets_home_FDE(scores, goals, cents, l) ==
    IF l >= L_FDE THEN cents
    ELSE get_optimal_targets_home_FDE(scores, goals,
                                      fde_round(scores, goals, cents), l + 1)

\* mutant of get_optimal_targets_home: scores passed to MR without np.copy
get_optimal_targets_home_no_copy(scores, goals) ==
    LET mr == get_optimal_targets_home_MR(scores, goals, zeros_6_2, 0)
    IN  get_optimal_targets_home_FDE(mr.scores, goals,
            [k \in 1..NUM_MODES |-> Num(mr.ans_points[k])], 0)

\* mutant of home_arrays: MR is passed scores itself, not np.copy(scores)
home_arrays_no_copy(scores, goals) ==
    LET mr == get_optimal_targets_home_MR(scores, goals, zeros_6_2, 0)
    IN  [scores |-> mr.scores,
         goals |-> goals,
         centroids |-> get_optimal_targets_home_FDE(mr.scores, goals,
                           [k \in 1..NUM_MODES |-> Num(mr.ans_points[k])], 0)]

\* the arrays after get_optimal_targets_home, lines 617-620: the caller's
\* scores and goals, and the array returned.  MR writes to np.copy(scores)
\* and to its own ans_points, FDE to that array (centroids) only.
home_arrays(scores, goals) ==
    LET mr == get_optimal_targets_home_MR(scores, goals, zeros_6_2, 0)
    IN  [scores |-> scores,
         goals |-> goals,
         centroids |-> get_optimal_targets_home_FDE(scores, goals,
                           [k \in 1..NUM_MODES |-> Num(mr.ans_points[k])], 0)]

\* get_optimal_targets_home, lines 617-620: MR works on a copy, FDE on scores
get_optimal_targets_home(scores, goals) == home_arrays(scores, goals).centroids

RECURSIVE Pow2(_)
Pow2(k) == IF k = 0 THEN 1 ELSE 2 * Pow2(k - 1)

\* line 627 for scores k * T * ln 2: exp(-score / T) = 2^(-k); numerators
\* over the common denominator 2^MaxK * sum
softmax_num(ks) == [j \in 1..Len(ks) |-> Pow2(MaxK - ks[j])]
softmax_den(ks) == SumOver(softmax_num(ks), 1..Len(ks))

\* line 632: the square of min(get_dis_batch(ans_points[i], label)), nan if
\* a point is nan
min_fde(cents, label) ==
    IF \E k \in 1..NUM_MODES : cents[k].nan THEN [nan |-> TRUE, sq |-> 0]
    ELSE [nan |-> FALSE,
          sq |-> CHOOSE d \in {get_dis_p2p_sq(cents[k].p, label) : k \in 1..NUM_MODES} :
                    \A k \in 1..NUM_MODES : d <= get_dis_p2p_sq(cents[k].p, label)]

----------------------------------------------------------------------------
(* Specification of construct_reference_path *)

RefPaths == SeqsOf(RefPts, 0, MaxRefLen)
Trajectories == SeqsOf(LabelPts, 1, MaxLabels)

ZeroCoeff == [a_2 |-> 0, a_1 |-> 0, a_0 |-> 0, b_2 |-> 0, b_1 |-> 0, b_0 |-> 0]

IdleCrp ==
    /\ labels = <<>>
    /\ future_frame_num = 0
    /\ ref_in = <<>>
    /\ rounds = 0
    /\ closest_point_idx = -1
    /\ R2 = -1
    /\ R2_raw = -1
    /\ filtered = <<>>

IdlePath ==
    /\ reference_path = <<>>
    /\ point_label = <<0, 0>>

IdleProj ==
    /\ point = <<0, 0>>
    /\ coeff = ZeroCoeff
    /\ np_roots = <<>>
    /\ t_hat = 0
    /\ point_hat = <<0, 0>>

IdleCqp ==
    /\ p2 = <<0, 0>>
    /\ transform_t = 0
    /\ fit_num = ZeroCoeff
    /\ fit_den = 0


IdleSse ==
    /\ dense_goals = <<>>
    /\ dense_goal_scores = <<>>
    /\ ground_truth_goal = <<0, 0>>
    /\ quadratic_path = [none |-> TRUE, c |-> ZeroCoeff]
    /\ target_energy_idx = NoneIdx
    /\ mo_idx = NoneIdx
    /\ loss = 0
    /\ one_call_loss = 0

IdleMR ==
    /\ mr_scores = <<>>
    /\ mr_goals = <<>>
    /\ ans_points = <<>>
    /\ mr_i = 0

IdleSel ==
    /\ sel_scores = <<>>
    /\ sel_goals = <<>>
    /\ sel_label = <<0, 0>>
    /\ probs = <<>>
    /\ probs_den = 0
    /\ centroids = <<>>
    /\ min_FDE = [nan |-> FALSE, sq |-> 0]

IdleRestRef == IdleProj /\ IdleCqp /\ IdleSse /\ IdleMR /\ IdleSel
IdleRestProj == IdlePath /\ IdleCrp /\ IdleCqp /\ IdleSse /\ IdleMR /\ IdleSel
IdleRestQuad == IdleCrp /\ IdleProj /\ IdleSse /\ IdleMR /\ IdleSel
IdleRestSse == IdlePath /\ IdleCrp /\ IdleProj /\ IdleCqp /\ IdleMR /\ IdleSel
IdleRestMR == IdlePath /\ IdleCrp /\ IdleProj /\ IdleCqp /\ IdleSse /\ IdleSel
IdleRestSel == IdlePath /\ IdleCrp /\ IdleProj /\ IdleCqp /\ IdleSse /\ IdleMR

InitRef ==
    /\ pc = "densify"
    /\ IdleRestRef
    /\ labels \in Trajectories
    /\ ref_in \in RefPaths
    /\ reference_path = ref_in
    /\ point_label \in {PyNeg(labels, 1), <<0, 3>>}
    /\ future_frame_num \in 1..MaxHorizon
    /\ rounds = 0
    /\ closest_point_idx = -1
    /\ R2 = -1
    /\ R2_raw = -1
    /\ filtered = <<>>

\* lines 200-206 on a non-empty path: one iteration of the while loop
Densify ==
    /\ pc = "densify"
    /\ Len(reference_path) < DENSE_LEN
    /\ Len(reference_path) >= 1
    /\ rounds < MaxRounds
    /\ reference_path' = densified_reference_path(reference_path)
    /\ rounds' = rounds + 1
    /\ UNCHANGED <<pc, labels, point_label, future_frame_num, ref_in,
                   closest_point_idx, R2, R2_raw, filtered, restRef>>

\* line 205 on an empty path: reference_path[-1] raises IndexError
DensifyRaise ==
    /\ pc = "densify"
    /\ Len(reference_path) = 0
    /\ pc' = "raised"
    /\ UNCHANGED <<pathVars, crpVars, restRef>>

\* lines 208-291 when labels[-future_frame_num//2] is out of range: IndexError
FilterRaise ==
    /\ pc = "densify"
    /\ Len(reference_path) >= DENSE_LEN
    /\ half_back(future_frame_num) > Len(labels)
    /\ pc' = "raised"
    /\ UNCHANGED <<pathVars, crpVars, restRef>>

\* lines 208-291: recentre, filter, splice and return, or raise
\* ZeroDivisionError from get_unit_vector
ShiftFilterSplice ==
    /\ pc = "densify"
    /\ Len(reference_path) >= DENSE_LEN
    /\ half_back(future_frame_num) <= Len(labels)
    /\ LET idx0 == argmin_dis(reference_path, point_label)
           shifted == shifted_reference_path(reference_path, idx0, point_label)
           r2 == radius_sq(labels, future_frame_num, shifted, idx0)
           flt == filtered_reference_path(shifted, point_label, r2)
           idx == argmin_dis(flt, point_label)
       IN  /\ R2' = r2
           /\ R2_raw' = unclamped_R_sq(labels, future_frame_num, shifted, idx0)
           /\ filtered' = flt
           /\ closest_point_idx' = idx
           /\ IF splice_raises(labels, future_frame_num, flt, idx)
              THEN /\ reference_path' = flt
                   /\ pc' = "zero_division"
              ELSE /\ reference_path' =
                          spliced_reference_path(labels, future_frame_num, flt, idx, r2)
                   /\ pc' = "done"
    /\ UNCHANGED <<labels, point_label, future_frame_num, ref_in, rounds, restRef>>

NextRef == Densify \/ DensifyRaise \/ FilterRaise \/ ShiftFilterSplice

SpecRef == InitRef /\ [][NextRef]_vars

----------------------------------------------------------------------------
(* Specification of inv_proj *)

ProjPts == {<<0, 0>>, <<1, 1>>, <<2, -1>>, <<-2, 2>>}
ProjCoeffs ==
    [a_2 : {-1, 0, 1}, a_1 : {-1, 1}, a_0 : {0},
     b_2 : {0, 1}, b_1 : {-1, 0, 1}, b_0 : {0, 1}]

\* the arguments: points and curves whose cubic (or, for a straight curve,
\* linear equation) has simple roots that are multiples of 1 / TDen
InitProj ==
    /\ pc = "inv_proj"
    /\ IdleRestProj
    /\ point \in ProjPts
    /\ coeff \in ProjCoeffs
    /\ roots_on_grid(c_3(point, coeff), c_2(point, coeff),
                     c_1(point, coeff), c_0(point, coeff))
    /\ np_roots = <<>>
    /\ t_hat = 0
    /\ point_hat = <<0, 0>>

\* lines 309-338, with the call of np.roots at line 298
InvProj ==
    /\ pc = "inv_proj"
    /\ \E roots \in np_roots_of(c_3(point, coeff), c_2(point, coeff),
                                 c_1(point, coeff), c_0(point, coeff)) :
          /\ np_roots' = roots
          /\ t_hat' = inv_proj(point, coeff, roots)[1]
          /\ point_hat' = inv_proj(point, coeff, roots)[2]
    /\ pc' = "projected"
    /\ UNCHANGED <<point, coeff, restProj>>

NextProj == InvProj

SpecProj == InitProj /\ [][NextProj]_vars

----------------------------------------------------------------------------
(* Claims about inv_proj, checked under SpecProj *)

\* the in-range real roots among what np.roots returned
InRangeRealRoots ==
    {np_roots[j].re : j \in {i \in 1..Len(np_roots) :
        np_roots[i].im = 0 /\ np_roots[i].re >= 0 /\ np_roots[i].re <= TDen}}

\* C5: inv_proj returns a t in [0,1] taken from the in-range real roots and
\* the two boundary values, whose curve point is at least as close to the
\* query point as that of every other candidate; without an in-range real
\* root it is the closer boundary value; and the point returned is the curve
\* at the returned t.
C5_InvProjMinimal ==
    pc = "projected" =>
        /\ 0 <= t_hat /\ t_hat <= TDen
        /\ t_hat \in InRangeRealRoots \cup {0, TDen}
        /\ \A k \in InRangeRealRoots \cup {0, TDen} :
              proj_dist(point, coeff, t_hat) <= proj_dist(point, coeff, k)
        /\ (InRangeRealRoots = {} =>
              IF proj_dist(point, coeff, 0) <= proj_dist(point, coeff, TDen)
              THEN t_hat = 0 ELSE t_hat = TDen)
        /\ point_hat = curve_at(coeff, t_hat)

\* C5 witness: np.roots gave a real root outside [0,1] that is closer to the
\* query point than everything admitted, and an in-range root is returned that
\* is strictly closer than both boundary values
C5_Witness ==
    /\ pc = "projected"
    /\ t_hat \in InRangeRealRoots \ {0, TDen}
    /\ proj_dist(point, coeff, t_hat) < proj_dist(point, coeff, 0)
    /\ proj_dist(point, coeff, t_hat) < proj_dist(point, coeff, TDen)
    /\ \E j \in 1..Len(np_roots) :
          /\ np_roots[j].im = 0
          /\ (np_roots[j].re < 0 \/ np_roots[j].re > TDen)
          /\ proj_dist(point, coeff, np_roots[j].re) < proj_dist(point, coeff, t_hat)

----------------------------------------------------------------------------
(* Specification of construct_quadratic_path: the choice of the anchors    *)
(* (lines 348-366) and the interpolation through them (transform, lines    *)
(* 371-389).  The search for t (LSE and scipy's minimize, lines 395-416)   *)
(* is not part of it; transform is applied to any t in (0, 1) that is a    *)
(* multiple of 1 / TDen.                                                   *)

QuadPts == {<<0, 0>>, <<2, 0>>, <<5, 0>>, <<10, 0>>}
QuadTargets == {<<0, 0>>, <<3, 1>>}

InitQuad ==
    /\ pc = "cqp"
    /\ IdleRestQuad
    /\ IdleCqp
    /\ reference_path \in SeqsOf(QuadPts, 1, MaxQuadLen)
    /\ point_label \in QuadTargets

\* lines 348-366: choose the middle anchor; None when it is degenerate
SelectAnchor ==
    /\ pc = "cqp"
    /\ p2' = middle_anchor(reference_path, point_label)
    /\ pc' = IF is_not_valid(At(reference_path, 0), p2', PyNeg(reference_path, 1))
             THEN "no_fit" ELSE "fit"
    /\ UNCHANGED <<pathVars, transform_t, fit_num, fit_den, restQuad>>

\* lines 371-389: transform(t) for the anchors chosen, at a t in (0, 1).
\* LSE calls it with every t the minimiser tries (x0 = 0.5 first) and line
\* 418 with the t the minimiser returns.
Transform ==
    /\ pc = "fit"
    /\ \E k \in 1..(TDen - 1) :
          /\ transform_t' = k
          /\ fit_num' = transform_num(At(reference_path, 0), p2,
                                      PyNeg(reference_path, 1), k)
          /\ fit_den' = transform_den(k)
    /\ pc' = "transformed"
    /\ UNCHANGED <<pathVars, p2, restQuad>>

NextQuad == SelectAnchor \/ Transform

SpecQuad == InitQuad /\ [][NextQuad]_vars

----------------------------------------------------------------------------
(* Claims about construct_quadratic_path, checked under SpecQuad *)

\* indices of the path points at distance >= 1e-7 from both path ends
ValidIdx ==
    {j \in 0..(Len(reference_path) - 1) :
        /\ At(reference_path, j) # At(reference_path, 0)
        /\ At(reference_path, j) # PyNeg(reference_path, 1)}

ClosestPoint == At(reference_path, argmin_dis(reference_path, point_label))

FirstValid == CHOOSE j \in ValidIdx : \A i \in ValidIdx : j <= i

\* C6: construct_quadratic_path returns None exactly when no path point is
\* at distance >= 1e-7 from both the first and the last point; when the
\* closest point coincides with an end and such a point exists the anchor is
\* the first such point in path order, and otherwise the closest point.
C6_AnchorSelection ==
    pc \in {"fit", "no_fit", "transformed"} =>
        /\ (pc = "no_fit") <=> (ValidIdx = {})
        /\ ValidIdx # {} =>
              p2 = IF ClosestPoint \in {At(reference_path, 0), PyNeg(reference_path, 1)}
                   THEN At(reference_path, FirstValid)
                   ELSE ClosestPoint

\* C6 witness: the closest point is an end of the path, two different valid
\* points exist, and the interpolation goes through the first of them
C6_Witness ==
    /\ pc = "transformed"
    /\ ClosestPoint \in {At(reference_path, 0), PyNeg(reference_path, 1)}
    /\ \E i, j \in ValidIdx : At(reference_path, i) # At(reference_path, j)
    /\ p2 = At(reference_path, FirstValid)

\* the anchors are p1 = (0, 0), middle = (5, 0), p3 = (10, 0)
StraightAnchors ==
    /\ pc = "transformed"
    /\ At(reference_path, 0) = <<0, 0>>
    /\ p2 = <<5, 0>>
    /\ PyNeg(reference_path, 1) = <<10, 0>>

\* C12 as stated: for the anchors (0,0), (5,0), (10,0) the interpolation
\* yields a_2 = 0 and b_2 = 0 for every admissible t.
C12_StraightAnchorsNoCurvature ==
    StraightAnchors => (fit_num.a_2 = 0 /\ fit_num.b_2 = 0)

\* C12 amended: for these anchors the interpolation yields b_2 = 0 for
\* every admissible t, and a_2 = (5 - 10 t) / (t^2 - t), which is 0 exactly
\* when t = 1/2.
C12_StraightAnchorsCurvature ==
    StraightAnchors =>
        /\ fit_num.b_2 = 0
        /\ fit_den # 0
        /\ fit_num.a_2 = (5 * TDen - 10 * transform_t) * TDen
        /\ (fit_num.a_2 = 0) <=> (2 * transform_t = TDen)

\* C12 witness: transform was applied to the straight anchors at t = 1/2
C12_Witness ==
    /\ StraightAnchors
    /\ 2 * transform_t = TDen
    /\ fit_num.a_2 = 0

----------------------------------------------------------------------------
(* Specification of get_sse_prep followed by                               *)
(* square_square_energy_loss_from_prep, both with their default m and eps  *)

SseGoalPts == {<<1, 0>>, <<6, 4>>, <<8, 6>>}
SseScores == {-2, 3, 10}
\* None, or the straight path from (0, 0) to (TDen, 0)
SsePaths ==
    {[none |-> TRUE, c |-> ZeroCoeff],
     [none |-> FALSE, c |-> [ZeroCoeff EXCEPT !.a_1 = TDen]]}

InitSse ==
    /\ pc = "sse_prep"
    /\ IdleRestSse
    /\ \E n \in 1..MaxGoals :
          /\ dense_goals \in [1..n -> SseGoalPts]
          /\ dense_goal_scores \in [1..n -> SseScores]
    /\ ground_truth_goal = <<0, 0>>
    /\ quadratic_path \in SsePaths
    /\ target_energy_idx = NoneIdx
    /\ mo_idx = NoneIdx
    /\ loss = 0
    /\ one_call_loss = 0

\* lines 473-496
GetSsePrep ==
    /\ pc = "sse_prep"
    /\ LET prep == get_sse_prep(dense_goals, dense_goal_scores, ground_truth_goal,
                                quadratic_path, M_DEFAULT, EPS_DEFAULT)
       IN  /\ target_energy_idx' = prep[1]
           /\ mo_idx' = prep[2]
    /\ pc' = "sse_loss"
    /\ UNCHANGED <<dense_goals, dense_goal_scores, ground_truth_goal,
                   quadratic_path, loss, one_call_loss, restSse>>

\* lines 499-512
LossFromPrep ==
    /\ pc = "sse_loss"
    /\ loss' = square_square_energy_loss_from_prep(dense_goal_scores,
                   target_energy_idx, mo_idx, M_DEFAULT)
    /\ pc' = "sse_done"
    /\ UNCHANGED <<dense_goals, dense_goal_scores, ground_truth_goal,
                   quadratic_path, target_energy_idx, mo_idx, one_call_loss, restSse>>

\* lines 515-517 on the same arguments
SquareSquareEnergyLoss ==
    /\ pc = "sse_done"
    /\ one_call_loss' = square_square_energy_loss(dense_goals, dense_goal_scores,
                             ground_truth_goal, quadratic_path)
    /\ pc' = "sse_both"
    /\ UNCHANGED <<dense_goals, dense_goal_scores, ground_truth_goal,
                   quadratic_path, target_energy_idx, mo_idx, loss, restSse>>

NextSse == GetSsePrep \/ LossFromPrep \/ SquareSquareEnergyLoss

SpecSse == InitSse /\ [][NextSse]_vars

----------------------------------------------------------------------------
(* Claims about the square-square energy loss, checked under SpecSse *)

\* the loss with the score of the target goal replaced by s
LossAt(s) ==
    square_square_energy_loss_from_prep(
        [dense_goal_scores EXCEPT ![target_energy_idx + 1] = s],
        target_energy_idx, mo_idx, M_DEFAULT)

TargetScores == (-MaxTargetScore)..(M_DEFAULT + MaxTargetScore)

\* C7 as stated: with the other scores and both indices fixed, the loss is
\* strictly increasing in the target score, for target scores of any sign.
C7_LossIncreasing ==
    pc = "sse_done" =>
        \A s1, s2 \in TargetScores : s1 < s2 => LossAt(s1) < LossAt(s2)

\* C7 amended: with the other scores and both indices fixed, and the most
\* offensive index absent or different from the target index, the loss is
\* strictly increasing in the target score over target scores >= 0.
C7_LossIncreasingNonNegative ==
    (pc = "sse_done" /\ mo_idx # target_energy_idx) =>
        \A s1, s2 \in TargetScores :
            (0 <= s1 /\ s1 < s2) => LossAt(s1) < LossAt(s2)

\* C7 witness: the loss was computed with a margin term from a most
\* offensive goal other than the target, whose score is not the target's
C7_Witness ==
    /\ pc = "sse_done"
    /\ mo_idx # NoneIdx
    /\ mo_idx # target_energy_idx
    /\ At(dense_goal_scores, mo_idx) # At(dense_goal_scores, target_energy_idx)
    /\ loss > At(dense_goal_scores, target_energy_idx)
              * At(dense_goal_scores, target_energy_idx)
    /\ loss = LossAt(At(dense_goal_scores, target_energy_idx))

\* goals with a score below m and a combined distance of at least eps
Qualified ==
    {i \in 0..(Len(dense_goals) - 1) :
        /\ At(dense_goal_scores, i) < M_DEFAULT
        /\ combined_far(At(dense_goals, i), ground_truth_goal, quadratic_path,
                        EPS_DEFAULT)}

\* C8: the most offensive index is the first index attaining the minimum
\* score over the qualified goals, None exactly when no goal qualifies, and
\* the target index is the first goal nearest to the ground-truth goal.
C8_MostOffensive ==
    pc \in {"sse_loss", "sse_done"} =>
        /\ (mo_idx = NoneIdx) <=> (Qualified = {})
        /\ Qualified # {} =>
              /\ mo_idx \in Qualified
              /\ \A i \in Qualified :
                    /\ At(dense_goal_scores, mo_idx) <= At(dense_goal_scores, i)
                    /\ At(dense_goal_scores, i) = At(dense_goal_scores, mo_idx)
                          => mo_idx <= i
        /\ \A i \in 0..(Len(dense_goals) - 1) :
              /\ get_dis_p2p_sq(At(dense_goals, target_energy_idx), ground_truth_goal)
                    <= get_dis_p2p_sq(At(dense_goals, i), ground_truth_goal)
              /\ get_dis_p2p_sq(At(dense_goals, i), ground_truth_goal)
                    = get_dis_p2p_sq(At(dense_goals, target_energy_idx), ground_truth_goal)
                    => target_energy_idx <= i

\* C8 witness: two qualified goals tie at the minimum score, one of them
\* qualifies only through its distance to the curve, a lower-scored goal
\* was passed over for being too near, and the first of the tied is returned
C8_Witness ==
    /\ pc = "sse_loss"
    /\ \E i, j \in Qualified :
          /\ i < j
          /\ mo_idx = i
          /\ At(dense_goal_scores, i) = At(dense_goal_scores, j)
          /\ \E k \in {i, j} :
                get_dis_p2p_sq(At(dense_goals, k), ground_truth_goal)
                    < EPS_DEFAULT * EPS_DEFAULT
    /\ \E k \in 0..(Len(dense_goals) - 1) :
          /\ k \notin Qualified
          /\ At(dense_goal_scores, k) < At(dense_goal_scores, mo_idx)

\* C15 as stated: square_square_energy_loss with its default arguments
\* returns the value square_square_energy_loss_from_prep returns on the
\* indices of get_sse_prep with its default arguments.
C15_OneCallEqualsSplit == pc = "sse_both" => one_call_loss = loss

----------------------------------------------------------------------------
(* Specification of get_optimal_targets_home_MR, one action per round *)

MRGoalPts == {<<0, 0>>, <<1, 0>>, <<3, 0>>}

InitMR ==
    /\ pc = "mr"
    /\ IdleRestMR
    /\ \E n \in 1..MaxMRGoals :
          /\ mr_goals \in [1..n -> MRGoalPts]
          /\ mr_scores \in [1..n -> 0..MaxMass]
    /\ ans_points = zeros_6_2
    /\ mr_i = 0

\* one iteration of the loop of line 583; the return follows the last
MRRound ==
    /\ pc = "mr"
    /\ mr_i < NUM_MODES
    /\ LET r == mr_round(mr_scores, mr_goals)
       IN  /\ ans_points' = [ans_points EXCEPT ![mr_i + 1] = r.center]
           /\ mr_scores' = r.scores
    /\ mr_i' = mr_i + 1
    /\ pc' = IF mr_i + 1 = NUM_MODES THEN "mr_done" ELSE "mr"
    /\ UNCHANGED <<mr_goals, restMR>>

NextMR == MRRound

SpecMR == InitMR /\ [][NextMR]_vars

----------------------------------------------------------------------------
(* Claims about get_optimal_targets_home_MR, checked under SpecMR *)

\* current mass of the goals strictly within R of goal j
Mass(j) ==
    SumOver(mr_scores, {k \in 1..Len(mr_goals) :
                           get_dis_p2p_sq(mr_goals[k], mr_goals[j]) < R_MR_SQ})

\* C9: the function returns after exactly 6 rounds; each round records the
\* first goal of maximal neighbourhood mass and zeroes the mass of exactly
\* the goals within R of it, every other mass unchanged; zero stays zero.
C9_ModeSeekingRounds ==
    [][/\ (pc = "mr" /\ pc' = "mr_done") => mr_i' = NUM_MODES
       /\ (pc = "mr" /\ pc' = "mr") => mr_i' < NUM_MODES
       /\ pc = "mr" =>
             /\ mr_i' = mr_i + 1
             /\ \E c \in 1..Len(mr_goals) :
                   /\ \A j \in 1..Len(mr_goals) : Mass(j) <= Mass(c)
                   /\ \A j \in 1..(c - 1) : Mass(j) < Mass(c)
                   /\ ans_points'[mr_i + 1] = mr_goals[c]
                   /\ \A k \in 1..NUM_MODES :
                         k # mr_i + 1 => ans_points'[k] = ans_points[k]
                   /\ \A j \in 1..Len(mr_goals) :
                         mr_scores'[j] =
                            IF get_dis_p2p_sq(mr_goals[j], mr_goals[c]) < R_MR_SQ
                            THEN 0 ELSE mr_scores[j]
             /\ \A j \in 1..Len(mr_goals) : mr_scores[j] = 0 => mr_scores'[j] = 0
      ]_vars

\* C9 witness: the first round has run, its centre is not the first goal,
\* and a goal at distance exactly R from the centre kept its mass
C9_Witness ==
    /\ pc = "mr"
    /\ mr_i = 1
    /\ ans_points[1] # mr_goals[1]
    /\ \E j \in 1..Len(mr_goals) :
          /\ get_dis_p2p_sq(mr_goals[j], ans_points[1]) = R_MR_SQ
          /\ mr_scores[j] > 0
    /\ \E j \in 1..Len(mr_goals) : mr_goals[j] = ans_points[1] /\ mr_scores[j] = 0

----------------------------------------------------------------------------
(* Specification of select_goals_by_optimization for one example; the     *)
(* loops of lines 626 and 631 treat the examples independently            *)

\* pairwise farther apart than the radius of get_optimal_targets_home_FDE
SelGoalPts == {<<0, 0>>, <<4, 0>>, <<0, 4>>}
SelLabels == {<<0, 0>>, <<4, 3>>}

InitSel ==
    /\ pc = "softmax"
    /\ IdleRestSel
    /\ \E n \in 1..MaxSelGoals :
          /\ sel_goals \in [1..n -> SelGoalPts]
          /\ sel_scores \in [1..n -> 0..MaxK]
    /\ sel_label \in SelLabels
    /\ probs = <<>>
    /\ probs_den = 0
    /\ centroids = <<>>
    /\ min_FDE = [nan |-> FALSE, sq |-> 0]

\* line 627
Softmax ==
    /\ pc = "softmax"
    /\ probs' = softmax_num(sel_scores)
    /\ probs_den' = softmax_den(sel_scores)
    /\ pc' = "home"
    /\ UNCHANGED <<sel_scores, sel_goals, sel_label, centroids, min_FDE, restSel>>

\* line 628: the call may write to the arrays it is passed
Home ==
    /\ pc = "home"
    /\ centroids' = get_optimal_targets_home(probs, sel_goals)
    /\ probs' = home_arrays(probs, sel_goals).scores
    /\ sel_goals' = home_arrays(probs, sel_goals).goals
    /\ pc' = "min_fde"
    /\ UNCHANGED <<sel_scores, sel_label, probs_den, min_FDE, restSel>>

\* line 632
MinFDE ==
    /\ pc = "min_fde"
    /\ min_FDE' = min_fde(centroids, sel_label)
    /\ pc' = "sel_done"
    /\ UNCHANGED <<sel_scores, sel_goals, sel_label, probs, probs_den, centroids,
                   restSel>>

NextSel == Softmax \/ Home \/ MinFDE

SpecSel == InitSel /\ [][NextSel]_vars

----------------------------------------------------------------------------
(* Claims about select_goals_by_optimization, checked under SpecSel *)

Coincident == \A j \in 1..Len(sel_goals) : sel_goals[j] = sel_goals[1]

\* C10: six points are returned, and when all goals coincide at p all six
\* equal p and min-FDE is the distance from p to the ground-truth goal, 0
\* when p is the ground-truth location.
C10_CoincidentGoals ==
    pc = "sel_done" =>
        /\ Len(centroids) = NUM_MODES
        /\ Coincident =>
              /\ \A k \in 1..NUM_MODES : centroids[k] = Num(sel_goals[1])
              /\ min_FDE = [nan |-> FALSE,
                            sq |-> get_dis_p2p_sq(sel_goals[1], sel_label)]
              /\ sel_goals[1] = sel_label => min_FDE.sq = 0

\* the array mode seeking leaves behind, and the points it returns
SeekScores == get_optimal_targets_home_MR(probs, sel_goals, zeros_6_2, 0).scores
SeekPoints ==
    [k \in 1..NUM_MODES |->
        Num(get_optimal_targets_home_MR(probs, sel_goals, zeros_6_2, 0).ans_points[k])]

\* C16: get_optimal_targets_home leaves the caller's score array and goal
\* array unchanged; the mass is zeroed in a private copy, and the 4
\* refinement rounds weight the goals by the original probabilities (so no
\* centroid is nan).
C16_CallerArraysUnchanged ==
    [][pc = "home" =>
          /\ probs' = probs
          /\ sel_goals' = sel_goals
          /\ centroids' = get_optimal_targets_home_FDE(probs, sel_goals, SeekPoints, 0)
          /\ \A k \in 1..NUM_MODES : ~centroids'[k].nan
      ]_vars

\* C16 witness: the call has returned for goals at two or more places, mode
\* seeking zeroed a positive probability in its copy, and the caller's
\* array still holds the softmax probabilities
C16_Witness ==
    /\ pc = "min_fde"
    /\ ~Coincident
    /\ \E j \in 1..Len(probs) : probs[j] > 0 /\ SeekScores[j] = 0
    /\ probs = softmax_num(sel_scores)
    /\ \A k \in 1..NUM_MODES : ~centroids[k].nan

\* C10 witness: several coincident goals at the ground-truth location with
\* uniform scores, selection finished with min-FDE 0
C10_Witness ==
    /\ pc = "sel_done"
    /\ Len(sel_goals) = MaxSelGoals
    /\ Coincident
    /\ \A j \in 1..Len(sel_scores) : sel_scores[j] = sel_scores[1]
    /\ sel_goals[1] = sel_label
    /\ min_FDE = [nan |-> FALSE, sq |-> 0]

----------------------------------------------------------------------------
(* Claims about construct_reference_path, checked under SpecRef *)

\* the function has returned a path for an input path of at least 2 points
Returned == pc = "done" /\ Len(ref_in) >= 2

\* C1 as stated: for every reference path of at least 2 points the polyline
\* returned by construct_reference_path has at least 3 points.
C1_AtLeastThreePoints == Returned => Len(reference_path) >= 3

\* C1 amended: for every reference path of at least 2 points the polyline
\* returned by construct_reference_path has at least 1 point (it can have
\* fewer than 3).
C1_AtLeastOnePoint == Returned => Len(reference_path) >= 1

\* C1 witness: a path of at least 2 points for which a single point is returned
C1_Witness == Returned /\ Len(reference_path) = 1

\* C2 as stated: on a reference path of 0 points or of 1 point the function
\* ends by raising.  Every step it takes from the densify loop on such a path
\* must then either raise or change the path: an iteration that does neither
\* leaves the loop where it was, with its condition still true, for ever.
C2_ShortPathRaises ==
    [][(pc = "densify" /\ Len(ref_in) < 2)
          => (pc' = "raised" \/ reference_path' # reference_path)]_vars

\* C3 as stated: the filter radius R satisfies 3 <= R <= 15, and is exactly 3
\* whenever the value clamped from below is less than 3.
C3_RadiusRange ==
    pc = "done" =>
        /\ R_MIN * R_MIN <= R2
        /\ R2 <= R_MAX * R_MAX
        /\ (R2_raw < R_MIN * R_MIN => R2 = R_MIN * R_MIN)

\* the closest point is at neither end of the filtered path
MiddleCase ==
    /\ pc = "done"
    /\ start_dist_sq(filtered, closest_point_idx) # 0
    /\ end_dist_sq(filtered, closest_point_idx) # 0

SH == start_hypo(labels, future_frame_num, filtered, closest_point_idx)
EH == end_hypo(labels, future_frame_num, filtered, closest_point_idx)
Seg == traj_segment(labels, At(filtered, closest_point_idx), R2)
SecondPartReplaced == SliceTo(filtered, closest_point_idx) \o Reversed(Seg)
FirstPartReplaced == Seg \o SliceFrom(filtered, closest_point_idx)

\* C4 as stated: in the middle case the filtered path is returned unmodified
\* unless the two dot products have strictly opposite signs and both exceed
\* 1e-7 in absolute value; no splice happens when one of them is zero.
C4_SpliceOnlyOnStrictDisagreement ==
    MiddleCase =>
        (reference_path # filtered =>
            /\ has_traj(labels, future_frame_num)
            /\ (SH > 0 /\ EH < 0) \/ (SH < 0 /\ EH > 0))

\* C4 amended: in the middle case the filtered path is returned unmodified
\* unless the trajectory direction exists, the product of the two dot
\* products is <= 0 and at least one of them exceeds 1e-7 in absolute value;
\* then the second part is replaced when the start dot product is the smaller
\* one and the first part otherwise.  A splice does happen when exactly one
\* of the dot products is zero.
C4_SpliceUnlessBothNegligible ==
    MiddleCase =>
        IF /\ has_traj(labels, future_frame_num)
           /\ (SH <= 0 /\ EH >= 0) \/ (SH >= 0 /\ EH <= 0)
           /\ SH # 0 \/ EH # 0
        THEN reference_path = (IF SH < EH THEN SecondPartReplaced ELSE FirstPartReplaced)
        ELSE reference_path = filtered

\* C4 witness: middle case, one dot product zero and the other not, and the
\* path returned differs from the filtered path
C4_Witness ==
    /\ MiddleCase
    /\ has_traj(labels, future_frame_num)
    /\ SH = 0
    /\ EH # 0
    /\ reference_path # filtered

----------------------------------------------------------------------------
(* construct_reference_path on straight paths with the trajectory along    *)
(* the same line                                                           *)

\* points of the line y = 0
LinePts == {<<-3, 0>>, <<1, 0>>, <<3, 0>>, <<5, 0>>, <<9, 0>>,
            <<23, 0>>, <<27, 0>>, <<29, 0>>, <<31, 0>>, <<35, 0>>, <<67, 0>>}

\* straight 2-point paths in either direction, whose densified points are 2,
\* 4 and 8 apart, and the empty path
StraightPaths ==
    {<<>>,
     <<<<0, 0>>, <<16, 0>>>>, <<<<16, 0>>, <<0, 0>>>>,
     <<<<0, 0>>, <<32, 0>>>>, <<<<32, 0>>, <<0, 0>>>>,
     <<<<0, 0>>, <<64, 0>>>>}

\* trajectories that advance along the line in one direction
LineTrajectories ==
    {s \in SeqsOf(LinePts, 1, MaxLabels) :
        \/ \A j \in 1..(Len(s) - 1) : s[j][1] < s[j + 1][1]
        \/ \A j \in 1..(Len(s) - 1) : s[j][1] > s[j + 1][1]}

InitStraight ==
    /\ pc = "densify"
    /\ IdleRestRef
    /\ labels \in LineTrajectories
    /\ ref_in \in StraightPaths
    /\ reference_path = ref_in
    /\ point_label = PyNeg(labels, 1)
    /\ future_frame_num \in 1..MaxHorizon
    /\ rounds = 0
    /\ closest_point_idx = -1
    /\ R2 = -1
    /\ R2_raw = -1
    /\ filtered = <<>>

SpecStraight == InitStraight /\ [][NextRef]_vars

----------------------------------------------------------------------------
(* The orientation of the returned path, checked under SpecStraight *)

cross(u, v) == u[1] * v[2] - u[2] * v[1]

\* from the first to the last point of the path passed in
PathDir == direction(At(ref_in, 0), PyNeg(ref_in, 1))

\* the path passed in is a straight line run through in one direction, and
\* the labels run along that line in one direction
StraightLine ==
    /\ Len(ref_in) >= 2
    /\ PathDir # <<0, 0>>
    /\ \A j \in 1..Len(ref_in) :
          cross(direction(ref_in[1], ref_in[j]), PathDir) = 0
    /\ \A j \in 1..(Len(ref_in) - 1) :
          dot(direction(ref_in[j], ref_in[j + 1]), PathDir) > 0
    /\ \A j \in 1..Len(labels) :
          cross(direction(ref_in[1], labels[j]), PathDir) = 0
    /\ \/ \A j \in 1..(Len(labels) - 1) :
             dot(direction(labels[j], labels[j + 1]), PathDir) > 0
       \/ \A j \in 1..(Len(labels) - 1) :
             dot(direction(labels[j], labels[j + 1]), PathDir) < 0

\* the trajectory ends at the target, strictly between the ends of the path
TargetInside ==
    /\ point_label = PyNeg(labels, 1)
    /\ dot(direction(At(ref_in, 0), point_label), PathDir) > 0
    /\ dot(direction(point_label, PyNeg(ref_in, 1)), PathDir) > 0

StraightCase ==
    /\ pc = "done"
    /\ StraightLine
    /\ TargetInside
    /\ has_traj(labels, future_frame_num)

\* last point minus second-to-last point of the path returned
FinalSegment == direction(PyNeg(reference_path, 2), PyNeg(reference_path, 1))

\* traj_direction of line 252: from the last label to the label a third of
\* the horizon back
TD == traj_direction(labels, future_frame_num)

\* the trajectory travels against the order of the path's points
Against == dot(TD, PathDir) > 0

\* start_dist <= 1e-7 and end_dist <= 1e-7: the closest point of the
\* filtered path is its first point, its last point
AtStart == start_dist_sq(filtered, closest_point_idx) = 0
AtEnd == end_dist_sq(filtered, closest_point_idx) = 0

\* C11 as stated: on a straight path with a collinear trajectory ending at a
\* target strictly inside the path, the final segment of the returned path
\* has a strictly positive dot product with the trajectory direction,
\* whichever way the trajectory travels.
C11_FinalSegmentAgrees ==
    StraightCase =>
        /\ Len(reference_path) >= 2
        /\ dot(FinalSegment, TD) > 0

\* C11 amended: in that case the returned path has two or more points
\* unless it is the filtered path of one point or the trajectory segment of
\* one label; when it has, the dot product of its final segment with the
\* trajectory direction is not zero, and it is strictly positive exactly
\* when the trajectory travels against the order of the path's points and
\* the closest point is not the first point of the filtered path; the dot
\* product of the final segment with the direction of the reference path is
\* strictly negative exactly when the trajectory travels against the order
\* of the path's points and the closest point is the first point of the
\* filtered path, in which case the trajectory segment alone is returned.
C11_FinalSegmentByCase ==
    StraightCase =>
        /\ Len(reference_path) < 2 =>
              \/ (AtStart /\ AtEnd /\ reference_path = filtered)
              \/ (Len(Seg) = 1 /\ reference_path = Seg)
        /\ Len(reference_path) >= 2 =>
              /\ dot(FinalSegment, TD) # 0
              /\ (dot(FinalSegment, TD) > 0) <=> (Against /\ ~AtStart)
              /\ (dot(FinalSegment, PathDir) < 0) <=> (Against /\ AtStart)
              /\ (Against /\ AtStart) => reference_path = Seg

\* C11 witness: the closest point is the first of two or more points of the
\* filtered path, the trajectory travelled against the order of the path,
\* and the trajectory segment of two or more labels was returned
C11_Witness ==
    /\ StraightCase
    /\ AtStart
    /\ ~AtEnd
    /\ Against
    /\ Len(Seg) >= 2
    /\ reference_path = Seg
    /\ dot(FinalSegment, TD) < 0

----------------------------------------------------------------------------
(* construct_reference_path on reference paths of up to MaxLongLen points. *)
(* The loop body runs whenever the loop condition holds, hence the         *)
(* fairness condition on Densify.                                          *)

\* straight paths of equidistant points and paths going to and fro
LongPaths ==
    {[j \in 1..n |-> <<16 * j, 0>>] : n \in 0..MaxLongLen}
    \cup {[j \in 1..n |-> <<16 * (j % 2), 0>>] : n \in 0..MaxLongLen}

InitLong ==
    /\ pc = "densify"
    /\ IdleRestRef
    /\ labels \in {<<<<0, 0>>>>, <<<<0, 0>>, <<2, 0>>>>, <<<<20, 0>>, <<2, 0>>>>}
    /\ ref_in \in LongPaths
    /\ reference_path = ref_in
    /\ point_label = PyNeg(labels, 1)
    /\ future_frame_num \in {1, MaxHorizon}
    /\ rounds = 0
    /\ closest_point_idx = -1
    /\ R2 = -1
    /\ R2_raw = -1
    /\ filtered = <<>>

SpecLong == InitLong /\ [][NextRef]_vars /\ WF_vars(Densify)

\* the densify loop is running or has just been left
InLoop == pc = "densify" /\ Len(ref_in) >= 2

\* a round of the loop
Round == InLoop /\ pc' = "densify" /\ rounds' = rounds + 1

\* C13: for a reference path of n >= 2 points the densify loop terminates;
\* each round turns k points into 2k-1 points keeping the original points in
\* order (every other point) and the first and last point; at most 3 rounds
\* run; a path of 9 or more points is left as is; a shorter one ends with
\* between 9 and 15 points.
C13_DensifyTerminates ==
    /\ [](InLoop =>
             /\ rounds <= 3
             /\ Len(ref_in) >= DENSE_LEN => (rounds = 0 /\ reference_path = ref_in)
             /\ (Len(ref_in) < DENSE_LEN /\ Len(reference_path) >= DENSE_LEN)
                   => Len(reference_path) <= 15)
    /\ [][Round =>
             /\ Len(reference_path) < DENSE_LEN
             /\ Len(reference_path') = 2 * Len(reference_path) - 1
             /\ \A j \in 1..Len(reference_path) :
                   reference_path'[2 * j - 1] = reference_path[j]
             /\ reference_path'[1] = reference_path[1]
             /\ PyNeg(reference_path', 1) = PyNeg(reference_path, 1)]_vars
    /\ [][(InLoop /\ Len(reference_path) >= DENSE_LEN)
             => (pc' # "densify" /\ rounds' = rounds)]_vars
    /\ (InLoop ~> (InLoop /\ Len(reference_path) >= DENSE_LEN))

\* C13 witness: a 2-point path has gone through 3 rounds and left the loop
\* with 9 points, its own two points first and last
C13_Witness ==
    /\ pc = "densify"
    /\ Len(ref_in) = 2
    /\ ref_in[1] # ref_in[2]
    /\ rounds = 3
    /\ Len(reference_path) = DENSE_LEN
    /\ reference_path[1] = ref_in[1]
    /\ reference_path[DENSE_LEN] = ref_in[2]

----------------------------------------------------------------------------
(* Zero-length directions in construct_reference_path, checked under SpecRef *)

\* the label of line 252 exists and equals the last label
ZeroTrajDirection ==
    /\ third_back(future_frame_num) <= Len(labels)
    /\ PyNeg(labels, third_back(future_frame_num)) = PyNeg(labels, 1)

\* C14: no division by zero of get_unit_vector escapes
\* construct_reference_path: with a zero-length trajectory direction the
\* filtered path is returned without a splice, and the start and end
\* directions are only requested from the closest point to a path end at a
\* distance above 1e-7 from it.
C14_NoZeroDivisionEscapes ==
    /\ pc # "zero_division"
    /\ (pc = "done" /\ ZeroTrajDirection) => reference_path = filtered
    /\ pc = "done" =>
          \A r \in unit_vector_requests(labels, future_frame_num, filtered,
                                        closest_point_idx) :
              /\ r[1] = At(filtered, closest_point_idx)
              /\ r[2] \in {At(filtered, 0), PyNeg(filtered, 1)}
              /\ get_dis_p2p_sq(r[1], r[2]) > 0

\* C14 witness: the label a third of the horizon back is another label than
\* the last one and equals it, the closest point lies strictly inside the
\* filtered path, and the filtered path was returned
C14_Witness ==
    /\ MiddleCase
    /\ ZeroTrajDirection
    /\ third_back(future_frame_num) >= 2
    /\ PyNeg(labels, 1) # At(labels, 0)
    /\ reference_path = filtered

====
